---- MODULE Spec2Model ----
(***************************************************************************)
(* A singly-linked stack in two variants: first.rs (enum Link) and         *)
(* second.rs (Option<Box<Node>> Link, with peek, peek_mut and into_iter).  *)
(* Boxes live in a heap of numbered addresses; a link owns at most one     *)
(* address.  One List object is modelled, built from either source file.   *)
(***************************************************************************)
EXTENDS Integers, Sequences, FiniteSets, TLC

\* Bounds of the model.
MaxNodes == 4      \* Box::new calls over the life of the list
MaxElem == 2       \* elements are 1..MaxElem
MaxExtra == 2      \* recorded pops / next() calls beyond the pushed elements

Elems == 1 .. MaxElem

VARIABLES
    impl,       \* "first" or "second": the source file the List comes from
    pc,         \* "live", "iter" (owned by an IntoIter), "dropping", "dropped"
    head,       \* List.head : Link<T>
    heap,       \* allocated Box<Node<T>>: address -> [elem, next]
    nalloc,     \* number of Box::new calls so far
    released,   \* addresses deallocated so far, in order
    depth,      \* nesting depth of Box<Node> drops in the last operation
    ret,        \* [op, val]: last call and what it returned
    abs,        \* abstract stack driven by the same calls (top first)
    phase,      \* "push", "pop", "iter", "off": shape of the call history
    pushed,     \* elements pushed while phase = "push"
    results,    \* pop()/next() results since the pushes ended
    lastWrite,  \* <<v>> from a write of v through peek_mut until the list next
                \* changes; <<v, "popped">> right after the pop() that follows it
    dropSrc,    \* addresses of the chain when teardown started, head first
    dropSteps,  \* loop iterations of Drop::drop that released a node
    relNext,    \* next links held by the nodes teardown handed to the drop glue
    roundTrip,  \* <<x, addresses, elements>> of the chain before a push(x) just
                \* made; a fourth entry "popped" right after the pop() that follows
    iterSrc,    \* <<addresses at into_iter(), next() calls that returned Some>>
    pair        \* a first.rs list and a second.rs list driven by the same calls

vars == <<impl, pc, head, heap, nalloc, released, depth, ret, abs, phase,
          pushed, results, lastWrite, dropSrc, dropSteps, relNext, roundTrip,
          iterSrc, pair>>

-----------------------------------------------------------------------------
\* Option<T>
None == <<>>
Some(x) == <<x>>

\* first.rs: enum Link { Empty, More(Box<Node>) }
Empty == [tag |-> "Empty"]
More(a) == [tag |-> "More", node |-> a]

\* Box::new(node) at the fresh address a / deallocation of the box at a
BoxNew(h, a, node) == [x \in DOMAIN h \cup {a} |-> IF x = a THEN node ELSE h[x]]
BoxFree(h, a) == [x \in DOMAIN h \ {a} |-> h[x]]

\* A list value is [head |-> link, heap |-> boxes].  Calls return
\* [self, ret, freed, depth]: the list afterwards, the returned value, the
\* addresses deallocated (in order) and the nesting depth of Box drops.

-----------------------------------------------------------------------------
\* first.rs

first_new == [head |-> Empty, heap |-> <<>>]

\* push that forgets to link the previous head below the new node
first_push_unlinked(self, elem, a) ==
    LET s1 == [self EXCEPT !.head = Empty]
        s2 == [s1 EXCEPT !.heap = BoxNew(s1.heap, a, [elem |-> elem, next |-> Empty])]
    IN  [self |-> [s2 EXCEPT !.head = More(a)], ret |-> None,
         freed |-> <<>>, depth |-> 0]

first_push(self, elem, a) ==
    LET taken == self.head                            \* mem::replace(.., Link::Empty)
        s1 == [self EXCEPT !.head = Empty]
        s2 == [s1 EXCEPT !.heap = BoxNew(s1.heap, a, [elem |-> elem, next |-> taken])]
    IN  [self |-> [s2 EXCEPT !.head = More(a)], ret |-> None,
         freed |-> <<>>, depth |-> 0]

\* pop that leaves the Empty written by mem::replace in the head
first_pop_no_relink(self) ==
    LET taken == self.head
        s1 == [self EXCEPT !.head = Empty]
    IN  IF taken = Empty
        THEN [self |-> s1, ret |-> None, freed |-> <<>>, depth |-> 0]
        ELSE LET node == s1.heap[taken.node]
             IN  [self |-> [s1 EXCEPT !.heap = BoxFree(s1.heap, taken.node)],
                  ret |-> Some(node.elem),
                  freed |-> <<taken.node>>, depth |-> 1]

\* pop that forgets the box instead of freeing it
first_pop_leak(self) ==
    LET taken == self.head
        s1 == [self EXCEPT !.head = Empty]
    IN  IF taken = Empty
        THEN [self |-> s1, ret |-> None, freed |-> <<>>, depth |-> 0]
        ELSE LET node == s1.heap[taken.node]
             IN  [self |-> [s1 EXCEPT !.head = node.next],
                  ret |-> Some(node.elem), freed |-> <<>>, depth |-> 0]

\* pop that answers an empty list with a default element
first_pop_default(self) ==
    LET taken == self.head
        s1 == [self EXCEPT !.head = Empty]
    IN  IF taken = Empty
        THEN [self |-> s1, ret |-> Some(1), freed |-> <<>>, depth |-> 0]
        ELSE LET node == s1.heap[taken.node]
                 s2 == [s1 EXCEPT !.head = node.next]
             IN  [self |-> [s2 EXCEPT !.heap = BoxFree(s2.heap, taken.node)],
                  ret |-> Some(node.elem),
                  freed |-> <<taken.node>>, depth |-> 1]

first_pop(self) ==
    LET taken == self.head
        s1 == [self EXCEPT !.head = Empty]
    IN  IF taken = Empty
        THEN [self |-> s1, ret |-> None, freed |-> <<>>, depth |-> 0]
        ELSE LET node == s1.heap[taken.node]
                 s2 == [s1 EXCEPT !.head = node.next]   \* next moved out
             IN  [self |-> [s2 EXCEPT !.heap = BoxFree(s2.heap, taken.node)],
                  ret |-> Some(node.elem),              \* elem moved out
                  freed |-> <<taken.node>>, depth |-> 1]

\* pop_node that leaves the rest of the chain attached to the returned node
first_pop_node_attached(self) ==
    LET taken == self.head
        s1 == [self EXCEPT !.head = Empty]
    IN  IF taken = Empty
        THEN [self |-> s1, ret |-> Empty]
        ELSE [self |-> s1, ret |-> More(taken.node)]

first_pop_node(self) ==
    LET taken == self.head
        s1 == [self EXCEPT !.head = Empty]
    IN  IF taken = Empty
        THEN [self |-> s1, ret |-> Empty]
        ELSE LET node == s1.heap[taken.node]
                 s2 == [s1 EXCEPT !.head = node.next]
             IN  [self |-> [s2 EXCEPT !.heap[taken.node].next = Empty],
                  ret |-> More(taken.node)]

\* Drop glue of Link<T> / Box<Node<T>>: drop the node's fields (next
\* recursively), then deallocate the box.
RECURSIVE first_drop_link(_, _)
first_drop_link(h, link) ==
    IF link = Empty
    THEN [heap |-> h, freed |-> <<>>, depth |-> 0]
    ELSE LET inner == first_drop_link(h, h[link.node].next)
         IN  [heap |-> BoxFree(inner.heap, link.node),
              freed |-> Append(inner.freed, link.node),
              depth |-> inner.depth + 1]

\* One iteration of `while let Link::More(_) = self.pop_node() {}`
first_drop_step(self) ==
    LET r == first_pop_node(self)
        d == first_drop_link(r.self.heap, r.ret)
    IN  [self |-> [r.self EXCEPT !.heap = d.heap], ret |-> None,
         freed |-> d.freed, depth |-> d.depth, more |-> r.ret # Empty,
         next_at_release |-> IF r.ret = Empty THEN {}
                             ELSE {r.self.heap[r.ret.node].next}]

RECURSIVE first_walk(_, _)
first_walk(h, link) ==
    IF link = Empty THEN <<>> ELSE <<link.node>> \o first_walk(h, h[link.node].next)

-----------------------------------------------------------------------------
\* second.rs

second_new == [head |-> None, heap |-> <<>>]

\* push that leaves the taken head out of the new node
second_push_unlinked(self, elem, a) ==
    LET s1 == [self EXCEPT !.head = None]
        s2 == [s1 EXCEPT !.heap = BoxNew(s1.heap, a, [elem |-> elem, next |-> None])]
    IN  [self |-> [s2 EXCEPT !.head = Some(a)], ret |-> None,
         freed |-> <<>>, depth |-> 0]

second_push(self, elem, a) ==
    LET taken == self.head                            \* self.head.take()
        s1 == [self EXCEPT !.head = None]
        s2 == [s1 EXCEPT !.heap = BoxNew(s1.heap, a, [elem |-> elem, next |-> taken])]
    IN  [self |-> [s2 EXCEPT !.head = Some(a)], ret |-> None,
         freed |-> <<>>, depth |-> 0]

\* pop that leaves the head empty instead of moving node.next into it
second_pop_no_relink(self) ==
    LET taken == self.head
        s1 == [self EXCEPT !.head = None]
    IN  IF taken = None
        THEN [self |-> s1, ret |-> None, freed |-> <<>>, depth |-> 0]
        ELSE LET node == s1.heap[taken[1]]
             IN  [self |-> [s1 EXCEPT !.heap = BoxFree(s1.heap, taken[1])],
                  ret |-> Some(node.elem),
                  freed |-> <<taken[1]>>, depth |-> 1]

second_pop(self) ==
    LET taken == self.head
        s1 == [self EXCEPT !.head = None]
    IN  IF taken = None
        THEN [self |-> s1, ret |-> None, freed |-> <<>>, depth |-> 0]
        ELSE LET node == s1.heap[taken[1]]
                 s2 == [s1 EXCEPT !.head = node.next]
             IN  [self |-> [s2 EXCEPT !.heap = BoxFree(s2.heap, taken[1])],
                  ret |-> Some(node.elem),
                  freed |-> <<taken[1]>>, depth |-> 1]

\* pop_node that leaves the rest of the chain attached to the returned node
second_pop_node_attached(self) ==
    LET taken == self.head
        s1 == [self EXCEPT !.head = None]
    IN  IF taken = None
        THEN [self |-> s1, ret |-> None]
        ELSE [self |-> s1, ret |-> Some(taken[1])]

second_pop_node(self) ==
    LET taken == self.head
        s1 == [self EXCEPT !.head = None]
    IN  IF taken = None
        THEN [self |-> s1, ret |-> None]
        ELSE LET node == s1.heap[taken[1]]
                 s2 == [s1 EXCEPT !.head = node.next]   \* node.next.take()
             IN  [self |-> [s2 EXCEPT !.heap[taken[1]].next = None],
                  ret |-> Some(taken[1])]

\* peek that looks one node too far
second_peek_below(self) ==
    [self |-> self,
     ret |-> IF self.head = None THEN None ELSE self.heap[self.head[1]].next]

\* peek written with take() instead of as_ref()
second_peek_take(self) ==
    [self |-> [self EXCEPT !.head = None],
     ret |-> IF self.head = None THEN None ELSE Some(self.head[1])]

\* write that lands in a copy of the element
second_write_copy(self, v) ==
    [self |-> self,
     ret |-> IF self.head = None THEN None ELSE Some(self.head[1])]

\* write that also takes the top node's next link
second_write_take(self, v) ==
    [self |-> IF self.head = None THEN self
              ELSE [self EXCEPT !.heap[self.head[1]] = [elem |-> v, next |-> None]],
     ret |-> IF self.head = None THEN None ELSE Some(self.head[1])]

\* peek / peek_mut return a reference to the head node's elem field: the
\* reference is the node's address.
second_peek(self) ==
    [self |-> self,                                   \* self.head.as_ref()
     ret |-> IF self.head = None THEN None ELSE Some(self.head[1])]

second_peek_mut(self) ==
    [self |-> self,                                   \* self.head.as_mut()
     ret |-> IF self.head = None THEN None ELSE Some(self.head[1])]

\* `if let Some(value) = list.peek_mut() { *value = v }`
second_write(self, v) ==
    LET r == second_peek_mut(self)
    IN  [self |-> IF r.ret = None THEN r.self
                  ELSE [r.self EXCEPT !.heap[r.ret[1]].elem = v],
         ret |-> r.ret]

RECURSIVE second_drop_link(_, _)
second_drop_link(h, link) ==
    IF link = None
    THEN [heap |-> h, freed |-> <<>>, depth |-> 0]
    ELSE LET inner == second_drop_link(h, h[link[1]].next)
         IN  [heap |-> BoxFree(inner.heap, link[1]),
              freed |-> Append(inner.freed, link[1]),
              depth |-> inner.depth + 1]

\* teardown written with `if` for `while`: the loop ends after one iteration
second_drop_step_once(self) ==
    LET r == second_pop_node(self)
        d == second_drop_link(r.self.heap, r.ret)
    IN  [self |-> [r.self EXCEPT !.heap = d.heap], ret |-> None,
         freed |-> d.freed, depth |-> d.depth, more |-> FALSE,
         next_at_release |-> IF r.ret = None THEN {}
                             ELSE {r.self.heap[r.ret[1]].next}]

\* One iteration of `while self.pop_node().is_some() {}`
second_drop_step(self) ==
    LET r == second_pop_node(self)
        d == second_drop_link(r.self.heap, r.ret)
    IN  [self |-> [r.self EXCEPT !.heap = d.heap], ret |-> None,
         freed |-> d.freed, depth |-> d.depth, more |-> r.ret # None,
         next_at_release |-> IF r.ret = None THEN {}
                             ELSE {r.self.heap[r.ret[1]].next}]

\* next that yields the top element without removing it
second_next_keep(self) ==
    [self |-> self,
     ret |-> IF self.head = None THEN None ELSE Some(self.heap[self.head[1]].elem),
     freed |-> <<>>, depth |-> 0]

\* IntoIter::next
second_next(self) == second_pop(self)

RECURSIVE second_walk(_, _)
second_walk(h, link) ==
    IF link = None THEN <<>> ELSE <<link[1]>> \o second_walk(h, h[link[1]].next)

-----------------------------------------------------------------------------
\* The list under test

Self == [head |-> head, heap |-> heap]

\* Addresses of the chain read from the head, and their elements
ChainAddrs == IF impl = "first" THEN first_walk(heap, head) ELSE second_walk(heap, head)
Chain == [i \in 1 .. Len(ChainAddrs) |-> heap[ChainAddrs[i]].elem]
IsEmptyHead == IF impl = "first" THEN head = Empty ELSE head = None

\* The two lists side by side, each freshly constructed
PairNew ==
    [first |-> first_new, second |-> second_new, pc |-> "live", nalloc |-> 0,
     op |-> "new",
     ret |-> [first |-> None, second |-> None],
     released |-> [first |-> <<>>, second |-> <<>>],
     more |-> [first |-> FALSE, second |-> FALSE]]

Init ==
    /\ impl \in {"first", "second"}
    /\ pc = "live"
    /\ head = IF impl = "first" THEN first_new.head ELSE second_new.head
    /\ heap = IF impl = "first" THEN first_new.heap ELSE second_new.heap
    /\ nalloc = 0
    /\ released = <<>>
    /\ depth = 0
    /\ ret = [op |-> "new", val |-> None]
    /\ abs = <<>>
    /\ phase = "push"
    /\ pushed = <<>>
    /\ results = <<>>
    /\ lastWrite = <<>>
    /\ dropSrc = <<>>
    /\ dropSteps = 0
    /\ relNext = {}
    /\ roundTrip = <<>>
    /\ iterSrc = <<>>
    /\ pair = PairNew

\* Effect of a call result r on the list and the allocator's log
Apply(r) ==
    /\ head' = r.self.head
    /\ heap' = r.self.heap
    /\ released' = released \o r.freed
    /\ depth' = r.depth

\* results, saturating MaxExtra entries past the pushed elements
Record(v) ==
    IF Len(results) < Len(pushed) + MaxExtra THEN Append(results, v) ELSE results

Off ==
    /\ phase' = "off"
    /\ pushed' = <<>>
    /\ results' = <<>>

\* lastWrite across a call that does not touch the list
KeepWrite == lastWrite' = IF Len(lastWrite) = 1 THEN lastWrite ELSE <<>>

Push(elem) ==
    /\ pc = "live"
    /\ nalloc < MaxNodes
    /\ Apply(IF impl = "first" THEN first_push(Self, elem, nalloc + 1)
                               ELSE second_push(Self, elem, nalloc + 1))
    /\ nalloc' = nalloc + 1
    /\ ret' = [op |-> "push", val |-> None]
    /\ abs' = <<elem>> \o abs
    /\ IF phase = "push"
       THEN phase' = "push" /\ pushed' = Append(pushed, elem) /\ results' = results
       ELSE Off
    /\ lastWrite' = <<>>
    /\ UNCHANGED <<impl, pc, dropSrc, dropSteps, relNext>>
    /\ roundTrip' = <<elem, ChainAddrs, Chain>>
    /\ UNCHANGED <<iterSrc, pair>>

Pop ==
    /\ pc = "live"
    /\ LET r == IF impl = "first" THEN first_pop(Self) ELSE second_pop(Self)
       IN  /\ Apply(r)
           /\ ret' = [op |-> "pop", val |-> r.ret]
           /\ IF phase \in {"push", "pop"}
              THEN phase' = "pop" /\ pushed' = pushed /\ results' = Record(r.ret)
              ELSE Off
    /\ abs' = IF abs = <<>> THEN abs ELSE Tail(abs)
    /\ lastWrite' = IF Len(lastWrite) = 1 THEN <<lastWrite[1], "popped">> ELSE <<>>
    /\ UNCHANGED <<impl, pc, nalloc, dropSrc, dropSteps, relNext>>
    /\ roundTrip' = IF Len(roundTrip) = 3 THEN Append(roundTrip, "popped") ELSE <<>>
    /\ UNCHANGED <<iterSrc, pair>>

\* peek(): the list is untouched, a shared reference is returned
Peek ==
    /\ pc = "live"
    /\ impl = "second"
    /\ LET r == second_peek(Self)
       IN  /\ head' = r.self.head
           /\ heap' = r.self.heap
           /\ ret' = [op |-> "peek", val |-> r.ret]
    /\ Off
    /\ KeepWrite
    /\ UNCHANGED <<impl, pc, nalloc, released, depth, abs, dropSrc, dropSteps, relNext>>
    /\ roundTrip' = <<>>
    /\ UNCHANGED <<iterSrc, pair>>

\* peek_mut() whose reference is compared and discarded
PeekMut ==
    /\ pc = "live"
    /\ impl = "second"
    /\ LET r == second_peek_mut(Self)
       IN  /\ head' = r.self.head
           /\ heap' = r.self.heap
           /\ ret' = [op |-> "peek_mut", val |-> r.ret]
    /\ Off
    /\ KeepWrite
    /\ UNCHANGED <<impl, pc, nalloc, released, depth, abs, dropSrc, dropSteps, relNext>>
    /\ roundTrip' = <<>>
    /\ UNCHANGED <<iterSrc, pair>>

\* peek_mut() followed by a write of v through the reference
PeekMutWrite(v) ==
    /\ pc = "live"
    /\ impl = "second"
    /\ LET r == second_write(Self, v)
       IN  /\ head' = r.self.head
           /\ heap' = r.self.heap
           /\ ret' = [op |-> "write", val |-> r.ret]
           /\ lastWrite' = IF r.ret = None THEN <<>> ELSE <<v>>
    /\ abs' = IF abs = <<>> THEN abs ELSE <<v>> \o Tail(abs)
    /\ Off
    /\ UNCHANGED <<impl, pc, nalloc, released, depth, dropSrc, dropSteps, relNext>>
    /\ roundTrip' = <<>>
    /\ UNCHANGED <<iterSrc, pair>>

\* into_iter(self): the list moves into IntoIter(self)
IntoIter ==
    /\ pc = "live"
    /\ impl = "second"
    /\ pc' = "iter"
    /\ ret' = [op |-> "into_iter", val |-> None]
    /\ IF phase = "push"
       THEN phase' = "iter" /\ pushed' = pushed /\ results' = results
       ELSE Off
    /\ KeepWrite
    /\ UNCHANGED <<impl, head, heap, nalloc, released, depth, abs,
                   dropSrc, dropSteps, relNext>>
    /\ roundTrip' = <<>>
    /\ iterSrc' = <<ChainAddrs, 0>>
    /\ UNCHANGED pair

\* IntoIter::next
IterNext ==
    /\ pc = "iter"
    /\ LET r == second_next(Self)
       IN  /\ Apply(r)
           /\ ret' = [op |-> "next", val |-> r.ret]
           /\ IF phase = "iter"
              THEN phase' = phase /\ pushed' = pushed /\ results' = Record(r.ret)
              ELSE Off
           /\ iterSrc' = IF r.ret = None THEN iterSrc
                         ELSE <<iterSrc[1], iterSrc[2] + 1>>
    /\ abs' = IF abs = <<>> THEN abs ELSE Tail(abs)
    /\ lastWrite' = <<>>
    /\ UNCHANGED <<impl, pc, nalloc, dropSrc, dropSteps, relNext>>
    /\ roundTrip' = <<>>
    /\ UNCHANGED pair

\* Drop for List: one iteration of the loop around pop_node.  The list (or the
\* IntoIter that owns it) goes out of scope in the first iteration.
DropStep ==
    /\ pc \in {"live", "iter", "dropping"}
    /\ LET r == IF impl = "first" THEN first_drop_step(Self) ELSE second_drop_step(Self)
       IN  /\ Apply(r)
           /\ pc' = IF r.more THEN "dropping" ELSE "dropped"
           /\ dropSteps' = IF r.more THEN dropSteps + 1 ELSE dropSteps
           /\ relNext' = relNext \cup r.next_at_release
    /\ dropSrc' = IF pc = "dropping" THEN dropSrc ELSE ChainAddrs
    /\ ret' = [op |-> "drop", val |-> None]
    /\ lastWrite' = <<>>
    /\ UNCHANGED <<impl, nalloc, abs, phase, pushed, results>>
    /\ roundTrip' = <<>>
    /\ UNCHANGED <<iterSrc, pair>>

Next ==
    \/ \E e \in Elems : Push(e)
    \/ Pop
    \/ Peek
    \/ PeekMut
    \/ \E v \in Elems : PeekMutWrite(v)
    \/ IntoIter
    \/ IterNext
    \/ DropStep

Spec == Init /\ [][Next]_vars

\* Teardown, once started, runs to completion
DropLoop == pc = "dropping" /\ DropStep
FairSpec == Spec /\ WF_vars(DropLoop)

-----------------------------------------------------------------------------
\* The same calls made on a first.rs list and on a second.rs list

main == <<impl, pc, head, heap, nalloc, released, depth, ret, abs, phase,
          pushed, results, lastWrite, dropSrc, dropSteps, relNext, roundTrip,
          iterSrc>>

\* Effect of one call, with result f on the first.rs list and s on the other
PairApply(op, f, s) ==
    [pair EXCEPT !.first = f.self,
                 !.second = s.self,
                 !.op = op,
                 !.ret = [first |-> f.ret, second |-> s.ret],
                 !.released = [first |-> pair.released.first \o f.freed,
                               second |-> pair.released.second \o s.freed]]

PairInit == Init /\ impl = "first"

PairPush(elem) ==
    /\ pair.pc = "live"
    /\ pair.nalloc < MaxNodes
    /\ pair' = [PairApply("push",
                          first_push(pair.first, elem, pair.nalloc + 1),
                          second_push(pair.second, elem, pair.nalloc + 1))
                   EXCEPT !.nalloc = pair.nalloc + 1]
    /\ UNCHANGED main

PairPop ==
    /\ pair.pc = "live"
    /\ pair' = PairApply("pop", first_pop(pair.first), second_pop(pair.second))
    /\ UNCHANGED main

\* Both lists go out of scope together; one loop iteration of each Drop::drop
PairDropStep ==
    /\ pair.pc \in {"live", "dropping"}
    /\ LET f == first_drop_step(pair.first)
           s == second_drop_step(pair.second)
       IN  pair' = [PairApply("drop", f, s)
                       EXCEPT !.pc = IF f.more \/ s.more THEN "dropping" ELSE "dropped",
                              !.more = [first |-> f.more, second |-> s.more]]
    /\ UNCHANGED main

PairNext ==
    \/ \E e \in Elems : PairPush(e)
    \/ PairPop
    \/ PairDropStep

PairSpec == PairInit /\ [][PairNext]_vars

-----------------------------------------------------------------------------
\* Properties

Expected(k) ==
    IF k <= Len(pushed) THEN Some(pushed[Len(pushed) - k + 1]) ELSE None

NoDup(q) == \A i, j \in 1 .. Len(q) : i # j => q[i] # q[j]

\* C1: from new(), pushes e1..en followed by pops return Some(en), ...,
\* Some(e1) in that order, and every further pop returns None.
C1_PushThenPop ==
    phase = "pop" => \A k \in 1 .. Len(results) : results[k] = Expected(k)

C1_Witness ==
    /\ phase = "pop"
    /\ pushed = <<1, 2, 2>>
    /\ Len(results) = 3 + MaxExtra

\* C2: under any interleaving of calls the chain read from the head equals
\* the abstract stack driven by the same calls, and every pop returns the
\* abstract stack's top (None when it is empty).
C2_ChainIsStack == pc \in {"live", "iter"} => Chain = abs

C2_PopIsTop ==
    ret'.op = "pop" => ret'.val = IF abs = <<>> THEN None ELSE Some(Head(abs))

C2_Refines == []C2_ChainIsStack /\ [][C2_PopIsTop]_vars

C2_Witness ==
    /\ phase = "off"
    /\ ret.op = "pop"
    /\ ret.val = Some(2)
    /\ nalloc = 4
    /\ abs = <<1, 1>>

\* C3: pop() on an empty list returns None, leaves the head Empty and
\* releases no node.
C3_PopEmptyStep ==
    (IsEmptyHead /\ ret'.op = "pop") =>
        /\ ret'.val = None
        /\ IsEmptyHead'
        /\ released' = released
        /\ heap' = heap

C3_PopEmpty == [][C3_PopEmptyStep]_vars

C3_Witness ==
    /\ ret.op = "pop"
    /\ ret.val = None
    /\ IsEmptyHead
    /\ Len(released) = 2

\* C4: peek() and peek_mut() return None on an empty list; on a non-empty
\* list the reference they return reads the element the next pop() returns,
\* which after push(x) is x.
C4_PeekIsTop ==
    ret.op \in {"peek", "peek_mut"} =>
        IF IsEmptyHead
        THEN ret.val = None
        ELSE /\ ret.val # None
             /\ Some(heap[ret.val[1]].elem) = second_pop(Self).ret
             /\ heap[ret.val[1]].elem = Head(abs)

C4_Witness ==
    /\ ret.op = "peek"
    /\ ret.val # None
    /\ Chain = <<2, 1, 1>>

\* C5: peek() leaves the chain as it was: the same nodes with the same
\* elements in the same order.
C5_PeekStep ==
    ret'.op = "peek" =>
        /\ head' = head
        /\ heap' = heap
        /\ ChainAddrs' = ChainAddrs
        /\ Chain' = Chain

C5_PeekFrame == [][C5_PeekStep]_vars

C5_Witness ==
    /\ ret.op = "peek"
    /\ Len(Chain) = 3

\* C6: after a write of v through peek_mut() on a non-empty list, the next
\* peek() observes v and the next pop() returns Some(v).
C6_WriteVisible ==
    /\ (Len(lastWrite) = 1 /\ ret.op = "peek") =>
            (ret.val # None /\ heap[ret.val[1]].elem = lastWrite[1])
    /\ Len(lastWrite) = 2 =>
            (ret.op = "pop" /\ ret.val = Some(lastWrite[1]))

C6_Witness ==
    /\ Len(lastWrite) = 2
    /\ lastWrite[1] = 2
    /\ Chain = <<1, 1>>

\* C7: a write through peek_mut() changes only the top node's element: the
\* same nodes at the same addresses, the same links, and every element below
\* the top unchanged.
C7_WriteStep ==
    ret'.op = "write" =>
        /\ head' = head
        /\ DOMAIN heap' = DOMAIN heap
        /\ released' = released
        /\ ChainAddrs' = ChainAddrs
        /\ \A a \in DOMAIN heap :
              /\ heap'[a].next = heap[a].next
              /\ (Some(a) # head => heap'[a].elem = heap[a].elem)
        /\ (Chain # <<>> => Tail(Chain') = Tail(Chain))

C7_WriteFrame == [][C7_WriteStep]_vars

C7_Witness ==
    /\ ret.op = "write"
    /\ Chain = <<2, 1, 1>>

\* C8: next() on the iterator of a list built by pushes e1..en returns
\* Some(en), ..., Some(e1), then None; after a None every next() is None.
C8_Order ==
    phase = "iter" => \A k \in 1 .. Len(results) : results[k] = Expected(k)

C8_Absorbing ==
    (ret.op = "next" /\ ret.val = None /\ ret'.op = "next") => ret'.val = None

C8_IntoIter == []C8_Order /\ [][C8_Absorbing]_vars

C8_Witness ==
    /\ phase = "iter"
    /\ pushed = <<1, 2, 2>>
    /\ Len(results) = 3 + MaxExtra

\* C9: teardown started with k nodes terminates, runs exactly k releasing
\* iterations, releases every remaining node once, head node first, and ends
\* with the head Empty.
C9_Progress ==
    pc \in {"dropping", "dropped"} =>
        /\ dropSteps <= Len(dropSrc)
        /\ Len(released) >= dropSteps
        /\ SubSeq(released, Len(released) - dropSteps + 1, Len(released))
              = SubSeq(dropSrc, 1, dropSteps)
        /\ ChainAddrs = SubSeq(dropSrc, dropSteps + 1, Len(dropSrc))
        /\ NoDup(released)

C9_Done ==
    pc = "dropped" =>
        /\ IsEmptyHead
        /\ dropSteps = Len(dropSrc)
        /\ DOMAIN heap = {}
        /\ Len(released) = nalloc

C9_Teardown ==
    /\ [](C9_Progress /\ C9_Done)
    /\ (pc = "dropping") ~> (pc = "dropped")

C9_Witness ==
    /\ pc = "dropped"
    /\ Len(dropSrc) = 3
    /\ nalloc = 4

\* C10: every node teardown releases has an Empty next link when it is
\* released, so Box<Node> drops never nest deeper than one.
C10_NoRecursion ==
    /\ depth <= 1
    /\ \A l \in relNext : l = IF impl = "first" THEN Empty ELSE None

C10_Witness ==
    /\ pc = "dropping"
    /\ dropSteps = 4
    /\ depth = 1
    /\ relNext # {}


\* Addresses a link owns, and the number of links that own address a
Owned(link) ==
    IF impl = "first"
    THEN IF link = Empty THEN {} ELSE {link.node}
    ELSE IF link = None THEN {} ELSE {link[1]}

Owners(a) ==
    (IF a \in Owned(head) THEN 1 ELSE 0)
        + Cardinality({b \in DOMAIN heap : a \in Owned(heap[b].next)})

Range(q) == {q[i] : i \in 1 .. Len(q)}

\* C11: after every completed call and every teardown iteration each live
\* node has exactly one owning link, no link dangles, and the walk from the
\* head visits every live node exactly once before reaching Empty.
C11_SimplePath ==
    /\ Owned(head) \subseteq DOMAIN heap
    /\ \A b \in DOMAIN heap : Owned(heap[b].next) \subseteq DOMAIN heap
    /\ \A a \in DOMAIN heap : Owners(a) = 1
    /\ NoDup(ChainAddrs)
    /\ Range(ChainAddrs) = DOMAIN heap

C11_Witness ==
    /\ pc = "dropping"
    /\ Len(ChainAddrs) = 2
    /\ Len(released) = 2
    /\ impl = "first"

\* C12: a node is allocated only by push, one per push; a node is released
\* only by a successful pop, iterator step or teardown iteration, one per
\* step and always the head node; the live nodes are exactly the nodes
\* reachable from the head and no node is released twice.
C12_Live ==
    /\ DOMAIN heap = Range(ChainAddrs)
    /\ NoDup(released)
    /\ Range(released) \cap DOMAIN heap = {}
    /\ Range(released) \cup DOMAIN heap = 1 .. nalloc

C12_Step ==
    LET born == DOMAIN heap' \ DOMAIN heap
        gone == DOMAIN heap \ DOMAIN heap'
    IN  /\ ret'.op = "push" =>
              (Cardinality(born) = 1 /\ gone = {} /\ released' = released)
        /\ ret'.op \in {"pop", "next", "drop"} =>
              /\ born = {}
              /\ IF IsEmptyHead
                 THEN gone = {} /\ released' = released
                 ELSE /\ gone = {Head(ChainAddrs)}
                      /\ released' = Append(released, Head(ChainAddrs))
        /\ ret'.op \notin {"push", "pop", "next", "drop"} =>
              (born = {} /\ gone = {} /\ released' = released)

C12_Accounting == []C12_Live /\ [][C12_Step]_vars

C12_Witness ==
    /\ pc = "dropped"
    /\ phase = "iter"
    /\ Len(results) = 2
    /\ Len(dropSrc) = 2
    /\ released = <<4, 3, 2, 1>>

Depth == Len(ChainAddrs)

\* C13: new() leaves depth 0; push takes depth d to d + 1 with a non-Empty
\* head; pop takes depth d >= 1 to d - 1 and returns Some, and leaves depth
\* 0 at 0 and returns None; the head is Empty only when no node remains.
C13_Settled ==
    /\ ret.op = "new" => (Depth = 0 /\ IsEmptyHead)
    /\ IsEmptyHead <=> DOMAIN heap = {}

C13_Step ==
    /\ ret'.op = "push" => (Depth' = Depth + 1 /\ ~IsEmptyHead')
    /\ ret'.op = "pop" =>
          IF Depth >= 1
          THEN /\ Depth' = Depth - 1
               /\ ret'.val # None
               /\ IsEmptyHead' <=> Depth = 1
          ELSE /\ Depth' = 0
               /\ IsEmptyHead'
               /\ ret'.val = None

C13_DepthMachine == []C13_Settled /\ [][C13_Step]_vars

C13_Witness ==
    /\ impl = "first"
    /\ ret.op = "pop"
    /\ ret.val # None
    /\ Depth = 2
    /\ nalloc = 4

\* C14: push puts the previous head link in the new head node's next, so
\* the old chain sits unchanged below the new top; a successful pop makes the
\* old head node's next the head and leaves every other node unchanged.
C14_Step ==
    /\ ret'.op = "push" =>
          /\ ChainAddrs' # <<>>
          /\ heap'[Head(ChainAddrs')].next = head
          /\ Tail(ChainAddrs') = ChainAddrs
          /\ Tail(Chain') = Chain
          /\ \A b \in DOMAIN heap : b \in DOMAIN heap' /\ heap'[b] = heap[b]
    /\ (ret'.op = "pop" /\ ~IsEmptyHead) =>
          /\ head' = heap[Head(ChainAddrs)].next
          /\ ChainAddrs' = Tail(ChainAddrs)
          /\ Chain' = Tail(Chain)
          /\ \A b \in DOMAIN heap' : b \in DOMAIN heap /\ heap'[b] = heap[b]

C14_ChainIntact == [][C14_Step]_vars

C14_Witness ==
    /\ impl = "second"
    /\ ret.op = "push"
    /\ Chain = <<2, 1, 1>>
    /\ Len(released) = 1

\* C16: in every reachable state push(x) immediately followed by pop()
\* returns Some(x) and leaves the list with the nodes, elements and order it
\* had before the push.
C16_FromHere ==
    pc = "live" =>
        \A x \in Elems :
            LET p == IF impl = "first" THEN first_push(Self, x, nalloc + 1)
                                       ELSE second_push(Self, x, nalloc + 1)
                q == IF impl = "first" THEN first_pop(p.self) ELSE second_pop(p.self)
            IN  q.ret = Some(x) /\ q.self = Self

C16_Done ==
    Len(roundTrip) = 4 =>
        /\ ret.op = "pop"
        /\ ret.val = Some(roundTrip[1])
        /\ ChainAddrs = roundTrip[2]
        /\ Chain = roundTrip[3]

C16_RoundTrip == C16_FromHere /\ C16_Done

C16_Witness ==
    /\ Len(roundTrip) = 4
    /\ roundTrip[1] = 2
    /\ Chain = <<1, 2>>
    /\ Len(released) = 2

\* C17: dropping an IntoIter after j successful next() calls on a list of n
\* nodes tears down the n - j remaining nodes, so the n nodes are released
\* once each (yielded first, then torn down, head first) and none is leaked.
C17_IterDrop ==
    Len(iterSrc) = 2 =>
        LET src == iterSrc[1]
            n == Len(src)
            j == iterSrc[2]
            done == IF pc = "iter" THEN j ELSE j + dropSteps
        IN  /\ done <= n
            /\ Len(released) >= done
            /\ SubSeq(released, Len(released) - done + 1, Len(released))
                  = SubSeq(src, 1, done)
            /\ ChainAddrs = SubSeq(src, done + 1, n)
            /\ DOMAIN heap = Range(ChainAddrs)
            /\ NoDup(released)
            /\ pc # "iter" => dropSrc = SubSeq(src, j + 1, n)
            /\ pc = "dropped" => (done = n /\ DOMAIN heap = {})

C17_Witness ==
    /\ pc = "dropped"
    /\ iterSrc = <<<<4, 3, 2, 1>>, 2>>
    /\ dropSteps = 2

\* first.rs Link read as a second.rs Link
ToOption(link) == IF link = Empty THEN None ELSE Some(link.node)

\* C15: driven by the same new/push/pop calls and then torn down, the
\* first.rs list and the second.rs list return the same pop results, hold the
\* same chain after every call and release the same nodes in the same order.
C15_SameChain ==
    LET wf == first_walk(pair.first.heap, pair.first.head)
        ws == second_walk(pair.second.heap, pair.second.head)
    IN  /\ wf = ws
        /\ \A i \in 1 .. Len(wf) :
              pair.first.heap[wf[i]].elem = pair.second.heap[ws[i]].elem
        /\ ToOption(pair.first.head) = pair.second.head
        /\ DOMAIN pair.first.heap = DOMAIN pair.second.heap
        /\ \A a \in DOMAIN pair.first.heap :
              ToOption(pair.first.heap[a].next) = pair.second.heap[a].next

C15_Variants ==
    /\ pair.ret.first = pair.ret.second
    /\ pair.released.first = pair.released.second
    /\ pair.more.first = pair.more.second
    /\ C15_SameChain

C15_Witness ==
    /\ pair.pc = "dropped"
    /\ pair.released.first = <<2, 4, 3, 1>>
    /\ pair.released.second = <<2, 4, 3, 1>>

====
